---- MODULE Spec2Model ----
(***************************************************************************)
(* RSIBot: the breakout controller of main.py (main), the strategy          *)
(* functions of strategy/simple_strategy.py, the exchange calls of          *)
(* exchange/binance_futures.py and the RSI scanner of utils/rsi_notifier.py.*)
(*                                                                          *)
(* Prices are integers.  Times are counted in closed trigger (1m) candles:  *)
(* the candle closing at minute m has close_time m, a range candle closes   *)
(* every RangeLen minutes and the range candle that opens after the one     *)
(* with close_time t has open_time t + 1 (Binance: close_time is the last   *)
(* millisecond before the next open_time).                                  *)
(***************************************************************************)
EXTENDS Integers, Sequences, FiniteSets, TLC

\* ---------------------------------------------------------------- bounds
\* Largest price a trigger candle can close at (prices are 0..MaxPrice).
MaxPrice == 2
\* Number of trigger candles that close before the market stops.
MaxTime == 4
\* Trigger candles per range candle (15 in the deployment).
RangeLen == 2
\* Largest close_time the scanner's candle source can return.
MaxCT == 2
\* Largest small value of the inputs of the pure functions.
MaxIn == 4
\* Largest close of the series given to rsi.
MaxClose == 4
\* Longest series given to rsi.
MaxRsiLen == 4
\* Largest period given to rsi.
MaxPeriod == 3

\* ------------------------------------------------------------ constants
\* config.quantity, in units of the default 0.001.
Qty == 1
\* "No close time yet": last_15m_close_time = None.
NoTime == -1
\* "No candidate stop": new_sl = None.
NoSl == -1

Prices == 0..MaxPrice

NoPlan == [side |-> "NONE", entry |-> 0, stop_loss |-> 0, take_profit |-> 0]

\* The symbols the scanner tracks (config.rsi_symbols) and its intervals.
RsiSymbols == <<"BTCUSDT">>
RSI_INTERVALS == <<"1m", "5m", "15m">>

VARIABLES
    \* ---- the exchange: candles, account
    now,        \* number of trigger candles closed so far
    k1,         \* last closed trigger candle [close_time, close]
    acc,        \* high/low of the range candle that is still open
    k15,        \* last closed range candle [close_time, high, low, close]
    position,   \* signed position amount of the traded symbol
    orders,     \* resting orders of the traded symbol
    \* ---- main(): configuration and locals
    config,
    pc,
    last_15m_close_time,
    range_high,
    range_low,
    active_15m_open,
    last_1m_close_time,
    close_price,
    entry_plan,
    current_sl,
    position_15m_close_time,
    fifteen_m,  \* [close, high, low] of the range candle of this tick
    position_amt,
    new_sl,     \* candidate stop of this tick (NoSl when None)
    \* ---- history of the controller's current tick
    tick,       \* what the tick did
    calls,      \* order-management calls made in the tick, in order
    sent,       \* trade alerts passed to send_message in the tick
    delivery,   \* what the transport did with the tick's alert ("-": none sent)
    armed,      \* [close_time, high, low] of the range candle of the last arming
    raised_at,  \* the step whose exchange call raised ("" while running)
    \* ---- run_rsi_notifier(): locals and history
    last_close_time,  \* (symbol, interval) -> close_time of the last candle taken
    scan_idx,   \* index in Pairs of the pair polled next; Len(Pairs) + 1: sleep
    scan_tick,  \* what the last poll did
    evals,      \* (pair, close_time) -> number of _check_and_notify calls (up to 2)
    alerts,     \* (pair, close_time) -> number of alerts sent (up to 2)
    polled,     \* pairs polled so far in the current scanner cycle, in order
    scan_calls, \* exchange operations the scanner has called so far
    \* ---- inputs and result of the pure strategy functions
    fn

mktVars == <<now, k1, acc, k15, position, orders>>
ctlVars == <<config, pc, last_15m_close_time, range_high, range_low,
             active_15m_open, last_1m_close_time, close_price, entry_plan,
             current_sl, position_15m_close_time, fifteen_m, position_amt,
             new_sl, tick, calls, sent, delivery, armed, raised_at>>
scanVars == <<last_close_time, scan_idx, scan_tick, evals, alerts, polled,
              scan_calls>>
vars == <<mktVars, ctlVars, scanVars, fn>>

\* ------------------------------------------------ strategy/simple_strategy.py
\* Mutant of build_trade_plan: risk:reward 1:1 instead of 1:2.
build_trade_plan_1R(rh, rl, entry, side) ==
    IF side = "LONG"
    THEN [side |-> side, entry |-> entry, stop_loss |-> rl,
          take_profit |-> entry + (entry - rl)]
    ELSE [side |-> side, entry |-> entry, stop_loss |-> rh,
          take_profit |-> entry - (rh - entry)]

\* strategy/simple_strategy.py:13-27
build_trade_plan(rh, rl, entry, side) ==
    IF side = "LONG"
    THEN [side |-> side, entry |-> entry, stop_loss |-> rl,
          take_profit |-> entry + 2 * (entry - rl)]
    ELSE [side |-> side, entry |-> entry, stop_loss |-> rh,
          take_profit |-> entry - 2 * (rh - entry)]

\* Mutant of hold_or_exit_on_15m: a close on the boundary holds.
hold_or_exit_on_15m_Inclusive(side, rh, rl, c, h, l) ==
    IF side = "LONG"
    THEN [should_hold |-> c >= rh, new_sl |-> IF c >= rh THEN l ELSE NoSl]
    ELSE [should_hold |-> c <= rl, new_sl |-> IF c <= rl THEN h ELSE NoSl]

\* Returns <<should_hold, new_sl>>; new_sl is NoSl for None.
hold_or_exit_on_15m(side, rh, rl, c, h, l) ==
    IF side = "LONG"
    THEN [should_hold |-> c > rh, new_sl |-> IF c > rh THEN l ELSE NoSl]
    ELSE [should_hold |-> c < rl, new_sl |-> IF c < rl THEN h ELSE NoSl]

\* ------------------------------------------------------------- main.py helpers
_side_to_binance(side) == IF side = "LONG" THEN "BUY" ELSE "SELL"

_opposite_side(side) == IF side = "BUY" THEN "SELL" ELSE "BUY"

Abs(x) == IF x < 0 THEN -x ELSE x

_in_position(amt) == Abs(amt) > 0

Max(a, b) == IF a >= b THEN a ELSE b
Min(a, b) == IF a <= b THEN a ELSE b

\* ------------------------------------------------- exchange/binance_futures.py
\* A range candle that has just opened: no trigger candle closed in it yet.
NoAcc == [high |-> -1, low |-> MaxPrice + 1]

\* latest_kline(symbol, "15m")["open_time"]
ActiveOpenTime == k15.close_time + 1

\* A variant of IsNewClosed that returns only on the first poll of a cursor.
IsNewClosed_OnlyFirst(ct, last) == last = NoTime

\* A variant of IsNewClosed that returns whatever candle is the last closed one.
IsNewClosed_Any(ct, last) == TRUE

\* The test of wait_for_new_closed_kline.
IsNewClosed(ct, last) == last = NoTime \/ ct > last

Call(op, side, price, qty) == [op |-> op, side |-> side, price |-> price, qty |-> qty]

CancelAll == Call("cancel_all_orders", "-", 0, 0)

SignedQty(side, qty) == IF side = "BUY" THEN qty ELSE -qty

\* The account after the exchange has executed call c.
PositionAfter(c) ==
    IF c.op = "place_market_order" THEN position + SignedQty(c.side, c.qty) ELSE position

OrdersAfter(c) ==
    IF c.op = "cancel_all_orders" THEN {}
    ELSE IF c.op \in {"place_stop_market", "place_take_profit_market"} THEN orders \cup {c}
    ELSE orders

\* A trigger candle closes at price c; every RangeLen-th one closes the range candle.
\* Nothing is observed of the exchange once the process has ended.
Tick ==
    /\ pc # "crashed"
    /\ now < MaxTime
    /\ \E c \in Prices :
        LET h == Max(acc.high, c)
            l == Min(acc.low, c)
        IN  /\ now' = now + 1
            /\ k1' = [close_time |-> now + 1, close |-> c]
            /\ IF (now + 1) % RangeLen = 0
               THEN /\ k15' = [close_time |-> now + 1, high |-> h, low |-> l, close |-> c]
                    /\ acc' = NoAcc
               ELSE /\ acc' = [high |-> h, low |-> l]
                    /\ UNCHANGED k15
    /\ UNCHANGED <<position, orders, ctlVars, scanVars, fn>>

\* A resting stop or target order triggers and fills (the price path inside a
\* candle is not modelled: any resting order may fill).
Fill ==
    /\ pc # "crashed"
    /\ \E o \in orders :
        /\ orders' = orders \ {o}
        /\ position' = position + SignedQty(o.side, o.qty)
    /\ UNCHANGED <<now, k1, acc, k15, ctlVars, scanVars, fn>>

\* ------------------------------------------------------------------ main.py
\* config.py: the options main() reads; a token or chat id is TRUE when it
\* is a non-empty string.
Config(dry, move, token, breakout_chat, chat) ==
    [dry_run |-> dry, move_sl_on_hold |-> move, telegram_bot_token |-> token,
     telegram_breakout_chat_id |-> breakout_chat, telegram_chat_id |-> chat]

\* The configurations the controller is run with: every execution mode with a
\* breakout chat, and a dry run for each other way the alert can be set up
\* (fallback chat, no chat, no token).
Configs ==
    {Config(dry, move, TRUE, TRUE, FALSE) : dry \in BOOLEAN, move \in BOOLEAN}
    \cup {Config(TRUE, FALSE, TRUE, FALSE, TRUE),
          Config(TRUE, FALSE, TRUE, FALSE, FALSE),
          Config(TRUE, FALSE, FALSE, TRUE, TRUE)}

\* Mutant of Rolled: the rollover is never noticed.
Rolled_Never(open_time, armed_open) == FALSE

\* main.py:96: the active range candle is no longer the one seen at arming.
Rolled(open_time, armed_open) == open_time # armed_open

\* Mutant of BreakoutSide: a close on the boundary counts as a breakout.
BreakoutSide_Inclusive(c, rh, rl) ==
    IF c >= rh THEN "LONG" ELSE IF c <= rl THEN "SHORT" ELSE "NONE"

\* main.py:100-105: the side of the breakout, "NONE" when the close is inside.
BreakoutSide(c, rh, rl) ==
    IF c > rh THEN "LONG" ELSE IF c < rl THEN "SHORT" ELSE "NONE"

\* Mutant of Tighten: any different candidate replaces the stop.
Tighten_Any(side, nsl, cur) == nsl # cur

\* main.py:215-219
Tighten(side, nsl, cur) ==
    (side = "LONG" /\ nsl > cur) \/ (side = "SHORT" /\ nsl < cur)

\* Mutant of NextSetupTime: the position loop's close time is not synced back.
NextSetupTime_NoSync(pos_ct, last_ct) == last_ct

\* main.py:239: the range close the next setup waits after.
NextSetupTime(pos_ct, last_ct) == pos_ct

\* main.py:127-128
BreakoutChat == config.telegram_breakout_chat_id \/ config.telegram_chat_id

\* What requests.post can do with a message: accept it, answer with an
\* error status, or raise (timeout, connection error).
TransportOutcomes == {"ok", "rejected", "raised"}

\* A variant of send_message that lets the transport's exception out.
send_message_Propagates(bot_token, chat_id, transport) ==
    IF ~bot_token \/ ~chat_id THEN [ret |-> FALSE, raised |-> FALSE]
    ELSE IF transport = "raised" THEN [ret |-> FALSE, raised |-> TRUE]
    ELSE [ret |-> transport = "ok", raised |-> FALSE]

\* telegram.py:53-70: the value returned and whether an exception leaves the
\* function; the except clause turns a raising transport into False.
send_message(bot_token, chat_id, transport) ==
    IF ~bot_token \/ ~chat_id THEN [ret |-> FALSE, raised |-> FALSE]
    ELSE IF transport = "ok" THEN [ret |-> TRUE, raised |-> FALSE]
    ELSE IF transport = "rejected" THEN [ret |-> FALSE, raised |-> FALSE]
    ELSE [ret |-> FALSE, raised |-> FALSE]

\* telegram.py format_trade_alert: the fields the text carries.
format_trade_alert(side, entry, sl, tp, dry) ==
    [side |-> side, entry |-> entry, stop_loss |-> sl, take_profit |-> tp, dry_run |-> dry]

\* main.py:126-137: the alerts handed to send_message for plan p.
TradeAlerts(p) ==
    IF config.telegram_bot_token /\ BreakoutChat
    THEN <<format_trade_alert(p.side, p.entry, p.stop_loss, p.take_profit, config.dry_run)>>
    ELSE <<>>

\* Mutant of EntryCalls: the protective orders are placed before the entry.
EntryCalls_StopFirst(p) ==
    LET side == _side_to_binance(p.side)
    IN  <<CancelAll,
          Call("place_stop_market", _opposite_side(side), p.stop_loss, Qty),
          Call("place_market_order", side, 0, Qty),
          Call("place_take_profit_market", _opposite_side(side), p.take_profit, Qty)>>

\* main.py:139-153: the order calls of an entry, in order.
EntryCalls(p) ==
    LET side == _side_to_binance(p.side)
    IN  <<CancelAll,
          Call("place_market_order", side, 0, Qty),
          Call("place_stop_market", _opposite_side(side), p.stop_loss, Qty),
          Call("place_take_profit_market", _opposite_side(side), p.take_profit, Qty)>>

\* Mutant of ExitCalls: the closing order is sent on the entry's side.
ExitCalls_SameSide(p, amt) ==
    <<CancelAll, Call("place_market_order", _side_to_binance(p.side), 0, Abs(amt))>>

\* main.py:196-202: the order calls of an exit, in order.
ExitCalls(p, amt) ==
    <<CancelAll,
      Call("place_market_order", _opposite_side(_side_to_binance(p.side)), 0, Abs(amt))>>

\* A variant in which the re-placed target follows the stop.
TightenCalls_TargetFollows(p, sl) ==
    LET side == _side_to_binance(p.side)
    IN  <<CancelAll,
          Call("place_stop_market", _opposite_side(side), sl, Qty),
          Call("place_take_profit_market", _opposite_side(side),
               p.take_profit + (sl - p.stop_loss), Qty)>>

\* main.py:223-236: the order calls that move the stop to sl, in order.
TightenCalls(p, sl) ==
    LET side == _side_to_binance(p.side)
    IN  <<CancelAll,
          Call("place_stop_market", _opposite_side(side), sl, Qty),
          Call("place_take_profit_market", _opposite_side(side), p.take_profit, Qty)>>

\* The exchange executes order call c for the controller.
DoCall(c) ==
    /\ position' = PositionAfter(c)
    /\ orders' = OrdersAfter(c)
    /\ calls' = Append(calls, c)
    /\ UNCHANGED <<now, k1, acc, k15>>

\* A variant in which the dry-run flag is ignored.
Live_Always == TRUE

\* main.py:45, 139, 171, 196, 223: "if not config.dry_run".
Live == ~config.dry_run

\* main.py:44-61
Start ==
    /\ pc = "start"
    /\ pc' = "wait15"
    /\ tick' = "start"
    /\ last_15m_close_time' = NoTime
    /\ calls' = IF ~Live THEN <<>> ELSE <<Call("set_leverage", "-", 0, 0)>>
    /\ UNCHANGED <<mktVars, config, range_high, range_low, active_15m_open,
                   last_1m_close_time, close_price, entry_plan, current_sl,
                   position_15m_close_time, fifteen_m, position_amt, new_sl,
                   sent, delivery, armed, raised_at, scanVars, fn>>

\* main.py:64-77: IDLE, a new range candle has closed.  The locals of the
\* previous iteration are dead here (each is assigned again before it is
\* read: lines 80, 83, 84, 93, 156, 157, 166-177, 179) and are set back to
\* their initial values.
Wait15 ==
    /\ pc = "wait15"
    /\ IsNewClosed(k15.close_time, last_15m_close_time)
    /\ last_15m_close_time' = k15.close_time
    /\ range_high' = k15.high
    /\ range_low' = k15.low
    /\ armed' = [close_time |-> k15.close_time, high |-> k15.high, low |-> k15.low]
    /\ pc' = "arm_latest"
    /\ tick' = "arm"
    /\ calls' = <<>>
    /\ sent' = <<>>
    /\ delivery' = "-"
    /\ active_15m_open' = NoTime
    /\ last_1m_close_time' = NoTime
    /\ close_price' = 0
    /\ entry_plan' = NoPlan
    /\ current_sl' = 0
    /\ position_15m_close_time' = NoTime
    /\ fifteen_m' = [close |-> 0, high |-> 0, low |-> 0]
    /\ position_amt' = 0
    /\ new_sl' = NoSl
    /\ UNCHANGED <<mktVars, config, raised_at, scanVars, fn>>

\* main.py:79-84
ArmLatest ==
    /\ pc = "arm_latest"
    /\ active_15m_open' = ActiveOpenTime
    /\ entry_plan' = NoPlan
    /\ last_1m_close_time' = last_15m_close_time
    /\ pc' = "wait1"
    /\ UNCHANGED <<mktVars, config, last_15m_close_time, range_high, range_low,
                   close_price, current_sl, position_15m_close_time, fifteen_m,
                   position_amt, new_sl, tick, calls, sent, delivery, armed, raised_at, scanVars, fn>>

\* main.py:86-93: ARMED, a new trigger candle has closed.
Wait1 ==
    /\ pc = "wait1"
    /\ IsNewClosed(k1.close_time, last_1m_close_time)
    /\ last_1m_close_time' = k1.close_time
    /\ close_price' = k1.close
    /\ pc' = "check_roll"
    /\ tick' = "trigger"
    /\ calls' = <<>>
    /\ sent' = <<>>
    /\ delivery' = "-"
    /\ UNCHANGED <<mktVars, config, last_15m_close_time, range_high, range_low,
                   active_15m_open, entry_plan, current_sl, position_15m_close_time,
                   fifteen_m, position_amt, new_sl, armed, raised_at, scanVars, fn>>

\* main.py:156-157
EnterPositionLoop ==
    /\ current_sl' = entry_plan'.stop_loss
    /\ position_15m_close_time' = last_15m_close_time
    /\ pc' = "p_wait15"

\* main.py:95-137 (and 139, 156-157 in dry-run): rollover check, breakout test, alert.
CheckBreakout ==
    /\ pc = "check_roll"
    /\ IF Rolled(ActiveOpenTime, active_15m_open)
       THEN /\ pc' = "wait15"
            /\ tick' = "rollover"
            /\ UNCHANGED <<entry_plan, sent, delivery, current_sl,
                           position_15m_close_time, raised_at>>
       ELSE LET bs == BreakoutSide(close_price, range_high, range_low)
            IN  IF bs = "NONE"
                THEN /\ pc' = "wait1"
                     /\ tick' = "stay"
                     /\ UNCHANGED <<entry_plan, sent, delivery, current_sl,
                                    position_15m_close_time, raised_at>>
                ELSE /\ entry_plan' = build_trade_plan(range_high, range_low, close_price, bs)
                     /\ tick' = "breakout"
                     /\ sent' = TradeAlerts(entry_plan')
                     /\ \E t \in (IF sent' = <<>> THEN {"-"} ELSE TransportOutcomes) :
                          /\ delivery' = t
                          /\ IF /\ sent' # <<>>
                                /\ send_message(config.telegram_bot_token,
                                                BreakoutChat, t).raised
                             THEN /\ pc' = "crashed"
                                  /\ raised_at' = "alert"
                                  /\ UNCHANGED <<current_sl, position_15m_close_time>>
                             ELSE /\ raised_at' = raised_at
                                  /\ IF ~Live
                                     THEN EnterPositionLoop
                                     ELSE /\ pc' = "e_cancel"
                                          /\ UNCHANGED <<current_sl,
                                                         position_15m_close_time>>
    /\ UNCHANGED <<mktVars, config, last_15m_close_time, range_high, range_low,
                   active_15m_open, last_1m_close_time, close_price, fifteen_m,
                   position_amt, new_sl, calls, armed, scanVars, fn>>

\* main.py:140
EntryCancel ==
    /\ pc = "e_cancel"
    /\ DoCall(EntryCalls(entry_plan)[1])
    /\ pc' = "e_market"
    /\ UNCHANGED <<config, last_15m_close_time, range_high, range_low, active_15m_open,
                   last_1m_close_time, close_price, entry_plan, current_sl,
                   position_15m_close_time, fifteen_m, position_amt, new_sl, tick,
                   sent, delivery, armed, raised_at, scanVars, fn>>

\* main.py:141
EntryMarket ==
    /\ pc = "e_market"
    /\ DoCall(EntryCalls(entry_plan)[2])
    /\ pc' = "e_stop"
    /\ UNCHANGED <<config, last_15m_close_time, range_high, range_low, active_15m_open,
                   last_1m_close_time, close_price, entry_plan, current_sl,
                   position_15m_close_time, fifteen_m, position_amt, new_sl, tick,
                   sent, delivery, armed, raised_at, scanVars, fn>>

\* main.py:142-147
EntryStop ==
    /\ pc = "e_stop"
    /\ DoCall(EntryCalls(entry_plan)[3])
    /\ pc' = "e_target"
    /\ UNCHANGED <<config, last_15m_close_time, range_high, range_low, active_15m_open,
                   last_1m_close_time, close_price, entry_plan, current_sl,
                   position_15m_close_time, fifteen_m, position_amt, new_sl, tick,
                   sent, delivery, armed, raised_at, scanVars, fn>>

\* main.py:148-157
EntryTarget ==
    /\ pc = "e_target"
    /\ DoCall(EntryCalls(entry_plan)[4])
    /\ UNCHANGED entry_plan
    /\ EnterPositionLoop
    /\ UNCHANGED <<config, last_15m_close_time, range_high, range_low, active_15m_open,
                   last_1m_close_time, close_price, fifteen_m, position_amt, new_sl,
                   tick, sent, delivery, armed, raised_at, scanVars, fn>>

\* main.py:203/175 and 238-239: leave the position loop for the setup loop.
BackToSetup(pos_ct) ==
    /\ pc' = "wait15"
    /\ last_15m_close_time' = NextSetupTime(pos_ct, last_15m_close_time)

\* main.py:179-236 without the order calls: hold or exit on range candle f
\* (closed at pos_ct) with position amount amt, and the stop to move to.
Decide(amt, f, pos_ct) ==
    LET d == hold_or_exit_on_15m(entry_plan.side, range_high, range_low,
                                 f.close, f.high, f.low)
    IN  /\ position_amt' = amt
        /\ new_sl' = d.new_sl
        /\ IF ~d.should_hold
           THEN /\ tick' = "exit"
                /\ UNCHANGED current_sl
                /\ IF ~Live
                   THEN BackToSetup(pos_ct)
                   ELSE pc' = "x_cancel" /\ UNCHANGED last_15m_close_time
           ELSE IF /\ config.move_sl_on_hold
                   /\ d.new_sl # NoSl
                   /\ Tighten(entry_plan.side, d.new_sl, current_sl)
                THEN /\ current_sl' = d.new_sl
                     /\ tick' = "tighten"
                     /\ pc' = IF ~Live THEN "p_wait15" ELSE "t_cancel"
                     /\ UNCHANGED last_15m_close_time
                ELSE /\ tick' = "hold"
                     /\ pc' = "p_wait15"
                     /\ UNCHANGED <<current_sl, last_15m_close_time>>

\* main.py:160-170 (and 176-236 in dry-run): IN_POSITION, a new range candle has closed.
PosWait15 ==
    /\ pc = "p_wait15"
    /\ IsNewClosed(k15.close_time, position_15m_close_time)
    /\ position_15m_close_time' = k15.close_time
    /\ fifteen_m' = [close |-> k15.close, high |-> k15.high, low |-> k15.low]
    /\ calls' = <<>>
    /\ sent' = <<>>
    /\ delivery' = "-"
    /\ IF ~Live
       THEN Decide(Qty, fifteen_m', position_15m_close_time')
       ELSE /\ pc' = "p_query"
            /\ tick' = "range"
            /\ UNCHANGED <<position_amt, new_sl, current_sl, last_15m_close_time>>
    /\ UNCHANGED <<mktVars, config, range_high, range_low, active_15m_open,
                   last_1m_close_time, close_price, entry_plan, armed, raised_at, scanVars, fn>>

\* main.py:172-236 without the order calls: the position query and the decision.
PosQuery ==
    /\ pc = "p_query"
    /\ IF ~_in_position(position)
       THEN /\ position_amt' = position
            /\ tick' = "zero"
            /\ BackToSetup(position_15m_close_time)
            /\ UNCHANGED <<new_sl, current_sl>>
       ELSE Decide(position, fifteen_m, position_15m_close_time)
    /\ UNCHANGED <<mktVars, config, range_high, range_low, active_15m_open,
                   last_1m_close_time, close_price, entry_plan, position_15m_close_time,
                   fifteen_m, calls, sent, delivery, armed, raised_at, scanVars, fn>>

\* main.py:197
ExitCancel ==
    /\ pc = "x_cancel"
    /\ DoCall(ExitCalls(entry_plan, position_amt)[1])
    /\ pc' = "x_market"
    /\ UNCHANGED <<config, last_15m_close_time, range_high, range_low, active_15m_open,
                   last_1m_close_time, close_price, entry_plan, current_sl,
                   position_15m_close_time, fifteen_m, position_amt, new_sl, tick,
                   sent, delivery, armed, raised_at, scanVars, fn>>

\* main.py:198-203, 239
ExitMarket ==
    /\ pc = "x_market"
    /\ DoCall(ExitCalls(entry_plan, position_amt)[2])
    /\ BackToSetup(position_15m_close_time)
    /\ UNCHANGED <<config, range_high, range_low, active_15m_open,
                   last_1m_close_time, close_price, entry_plan, current_sl,
                   position_15m_close_time, fifteen_m, position_amt, new_sl, tick,
                   sent, delivery, armed, raised_at, scanVars, fn>>

\* main.py:224
TightenCancel ==
    /\ pc = "t_cancel"
    /\ DoCall(TightenCalls(entry_plan, current_sl)[1])
    /\ pc' = "t_stop"
    /\ UNCHANGED <<config, last_15m_close_time, range_high, range_low, active_15m_open,
                   last_1m_close_time, close_price, entry_plan, current_sl,
                   position_15m_close_time, fifteen_m, position_amt, new_sl, tick,
                   sent, delivery, armed, raised_at, scanVars, fn>>

\* main.py:225-230
TightenStop ==
    /\ pc = "t_stop"
    /\ DoCall(TightenCalls(entry_plan, current_sl)[2])
    /\ pc' = "t_target"
    /\ UNCHANGED <<config, last_15m_close_time, range_high, range_low, active_15m_open,
                   last_1m_close_time, close_price, entry_plan, current_sl,
                   position_15m_close_time, fifteen_m, position_amt, new_sl, tick,
                   sent, delivery, armed, raised_at, scanVars, fn>>

\* main.py:231-236
TightenTarget ==
    /\ pc = "t_target"
    /\ DoCall(TightenCalls(entry_plan, current_sl)[3])
    /\ pc' = "p_wait15"
    /\ UNCHANGED <<config, last_15m_close_time, range_high, range_low, active_15m_open,
                   last_1m_close_time, close_price, entry_plan, current_sl,
                   position_15m_close_time, fifteen_m, position_amt, new_sl, tick,
                   sent, delivery, armed, raised_at, scanVars, fn>>

\* A variant in which a failed entry call is swallowed and the position loop
\* is entered all the same.
CallRaises_EntrySwallowed ==
    /\ pc \notin {"crashed"}
    /\ ~(pc = "start" /\ config.dry_run)
    /\ pc' = IF pc \in {"e_cancel", "e_market", "e_stop", "e_target"}
             THEN "p_wait15" ELSE "crashed"
    /\ raised_at' = pc
    /\ UNCHANGED <<mktVars, config, last_15m_close_time, range_high, range_low,
                   active_15m_open, last_1m_close_time, close_price, entry_plan,
                   current_sl, position_15m_close_time, fifteen_m, position_amt,
                   new_sl, tick, calls, sent, delivery, armed, scanVars, fn>>

\* Every step of main() is an exchange call made outside any try block
\* (klines, position, orders; in dry-run "start" calls nothing): when the
\* call raises, the exception leaves main() and the process ends.
CallRaises ==
    /\ pc \notin {"crashed"}
    /\ ~(pc = "start" /\ config.dry_run)
    /\ pc' = "crashed"
    /\ raised_at' = pc
    /\ UNCHANGED <<mktVars, config, last_15m_close_time, range_high, range_low,
                   active_15m_open, last_1m_close_time, close_price, entry_plan,
                   current_sl, position_15m_close_time, fifteen_m, position_amt,
                   new_sl, tick, calls, sent, delivery, armed, scanVars, fn>>

\* The PositionState of the design: where main() is.
CtlState ==
    CASE pc \in {"start", "wait15"} -> "IDLE"
      [] pc \in {"arm_latest", "wait1", "check_roll"} -> "ARMED"
      [] pc \in {"e_cancel", "e_market", "e_stop", "e_target"} -> "ENTERING"
      [] pc \in {"p_wait15", "p_query", "t_cancel", "t_stop", "t_target"} -> "IN_POSITION"
      [] pc \in {"x_cancel", "x_market"} -> "EXITING"
      [] OTHER -> "TERMINATED"

\* ------------------------------------------------------ utils/rsi_notifier.py
\* rsi_notifier.py:148-149: for symbol in symbols: for interval in
\* RSI_INTERVALS; the (symbol, interval) pairs in the order of the nest.
PairsOf(symbols) ==
    [i \in 1..(Len(symbols) * Len(RSI_INTERVALS)) |->
        <<symbols[((i - 1) \div Len(RSI_INTERVALS)) + 1],
          RSI_INTERVALS[((i - 1) % Len(RSI_INTERVALS)) + 1]>>]

\* The pairs in the order run_rsi_notifier polls them.
Pairs == PairsOf(RsiSymbols)

Keys == {Pairs[i] : i \in 1..Len(Pairs)}

CloseTimes == 1..MaxCT

\* RSI readings: every threshold of the rules and a value on each side of it.
RsiVals == {10, 20, 25, 30, 35, 40, 50, 60, 65, 70, 75, 80, 85}

\* A variant of _is_oversold with inclusive thresholds.
_is_oversold_Inclusive(interval, r6, r12) ==
    IF interval = "1m" THEN r6 <= 20 /\ r12 <= 30
    ELSE IF interval = "5m" THEN r6 <= 30 /\ r12 <= 40
    ELSE IF interval = "15m" THEN r6 <= 40
    ELSE FALSE

_is_oversold(interval, r6, r12) ==
    IF interval = "1m" THEN r6 < 20 /\ r12 < 30
    ELSE IF interval = "5m" THEN r6 < 30 /\ r12 < 40
    ELSE IF interval = "15m" THEN r6 < 40
    ELSE FALSE

_is_overbought(interval, r6, r12) ==
    IF interval = "1m" THEN r6 > 80 /\ r12 > 70
    ELSE IF interval \in {"5m", "15m"} THEN r6 > 70
    ELSE FALSE

\* A variant of AlertFor without the 1m confirmation of 5m and 15m candles.
AlertFor_NoConfirm(interval, r6, r12, ok1m, r6_1m) ==
    IF _is_oversold(interval, r6, r12) THEN "Oversold"
    ELSE IF _is_overbought(interval, r6, r12) THEN "Overbought"
    ELSE "None"

\* _check_and_notify, lines 99-119: the alert sent for readings r6, r12 of
\* the interval, ok1m telling whether the 1m closes could be fetched and
\* r6_1m their RSI(6); "None" when no alert is sent.
AlertFor(interval, r6, r12, ok1m, r6_1m) ==
    IF _is_oversold(interval, r6, r12) THEN "Oversold"
    ELSE IF _is_overbought(interval, r6, r12)
         THEN IF interval \in {"5m", "15m"} /\ (~ok1m \/ r6_1m <= 80)
              THEN "None"
              ELSE "Overbought"
         ELSE "None"

\* The outcomes _check_and_notify can have for an interval, over all readings.
AlertKinds ==
    [iv \in {"1m", "5m", "15m"} |->
        {AlertFor(iv, r6, r12, ok1m, r6_1m) :
            r6 \in RsiVals, r12 \in RsiVals, ok1m \in BOOLEAN, r6_1m \in RsiVals}]

\* Mutant of ScanIsNew: any candle other than the last one taken is new.
ScanIsNew_NotSame(ct, last) == ct # last

\* rsi_notifier.py:154: the candle is newer than the cursor.
ScanIsNew(ct, last) == ~(ct <= last)

Bump(f, k) == [f EXCEPT ![k] = Min(f[k] + 1, 2)]

NextPair ==
    /\ scan_idx' = scan_idx + 1

\* A variant in which an evaluation first cancels the symbol's open orders.
ScannerOps_Cancels(evaluated) ==
    IF evaluated
    THEN {"last_closed_kline", "cancel_all_orders", "get_spot_klines", "get_klines"}
    ELSE {"last_closed_kline"}

\* The exchange operations of one poll: last_closed_kline (line 151) and,
\* when the candle is evaluated, get_spot_klines (line 54) with its fallback
\* get_klines (line 58).
ScannerOps(evaluated) ==
    IF evaluated
    THEN {"last_closed_kline", "get_spot_klines", "get_klines"}
    ELSE {"last_closed_kline"}

\* A variant in which an exception for one pair leaves the for loops: the
\* rest of the cycle is dropped.
AfterPollError_EndsCycle ==
    /\ scan_idx' = Len(Pairs) + 1

\* rsi_notifier.py:160-161: the except inside the for loops logs a warning
\* and the loop goes on with the next pair.
AfterPollError ==
    /\ scan_idx' = scan_idx + 1

\* rsi_notifier.py:150-161 with _check_and_notify (76-119): one pair is polled.
\* last_closed_kline returns a candle with any close_time (the same one or an
\* older one again) or raises; the closes fetched give any readings, or
\* nothing (fetch failed, fewer than 25 klines), or something raises.
ScanPoll ==
    /\ pc # "crashed"
    /\ scan_idx <= Len(Pairs)
    /\ polled' = Append(polled, Pairs[scan_idx])
    /\ LET key == Pairs[scan_idx]
       IN  \/ /\ scan_tick' = "kline_raised"
              /\ AfterPollError
              /\ scan_calls' = scan_calls \cup ScannerOps(FALSE)
              /\ UNCHANGED <<last_close_time, evals, alerts>>
           \/ \E ct \in CloseTimes :
                IF ~ScanIsNew(ct, last_close_time[key])
                THEN /\ scan_tick' = "skip"
                     /\ NextPair
                     /\ scan_calls' = scan_calls \cup ScannerOps(FALSE)
                     /\ UNCHANGED <<last_close_time, evals, alerts>>
                ELSE /\ last_close_time' = [last_close_time EXCEPT ![key] = ct]
                     /\ evals' = Bump(evals, <<key, ct>>)
                     /\ scan_calls' = scan_calls \cup ScannerOps(TRUE)
                     /\ \/ /\ scan_tick' = "no_closes"
                           /\ NextPair
                           /\ UNCHANGED alerts
                        \/ /\ scan_tick' = "eval_raised"
                           /\ AfterPollError
                           /\ UNCHANGED alerts
                        \/ \E kind \in AlertKinds[key[2]] :
                             /\ NextPair
                             /\ IF kind = "None"
                                THEN /\ scan_tick' = "quiet"
                                     /\ UNCHANGED alerts
                                ELSE /\ scan_tick' = kind
                                     /\ alerts' = Bump(alerts, <<key, ct>>)
    /\ UNCHANGED <<mktVars, ctlVars, fn>>

\* rsi_notifier.py:162: the cycle is over, sleep and start the next one.
ScanSleep ==
    /\ pc # "crashed"
    /\ scan_idx = Len(Pairs) + 1
    /\ scan_idx' = 1
    /\ scan_tick' = "sleep"
    /\ polled' = <<>>
    /\ UNCHANGED <<last_close_time, evals, alerts, scan_calls, mktVars, ctlVars, fn>>

\* ---------------------------------------------------------------- utils/rsi.py
\* Averages and results are exact fractions: an average is g/d (gains) and
\* l/d (losses) with the common denominator d, a result is num/den.
RsiNone == [none |-> TRUE, num |-> 0, den |-> 1]

RsiOf(num, den) == [none |-> FALSE, num |-> num, den |-> den]

\* A variant of Gain that counts a fall as a gain too.
Gain_Abs(ch) == Abs(ch)

\* rsi.py:20, first component: ch if ch > 0 else 0.0.
Gain(ch) == IF ch > 0 THEN ch ELSE 0

\* rsi.py:20, second component: -ch if ch < 0 else 0.0.
Loss(ch) == IF ch < 0 THEN -ch ELSE 0

\* rsi.py:17-20: the (gain, loss) of every close against its predecessor.
Changes(closes) ==
    [i \in 1..(Len(closes) - 1) |->
        LET ch == closes[i + 1] - closes[i] IN <<Gain(ch), Loss(ch)>>]

RECURSIVE SumFirst(_, _, _)
\* rsi.py:23-26: the sum of component k of the first n changes.
SumFirst(changes, k, n) ==
    IF n = 0 THEN 0 ELSE SumFirst(changes, k, n - 1) + changes[n][k]

RECURSIVE Wilder(_, _, _, _)
\* rsi.py:29-32: the smoothing from change i on:
\* avg = (avg * (period - 1) + x) / period for gains and losses.
Wilder(changes, period, i, avg) ==
    IF i > Len(changes) THEN avg
    ELSE Wilder(changes, period, i + 1,
                [g |-> avg.g * (period - 1) + changes[i][1] * avg.d,
                 l |-> avg.l * (period - 1) + changes[i][2] * avg.d,
                 d |-> avg.d * period])

\* A variant of RsiValue that returns 50 for a series with no gain and no loss.
RsiValue_FlatIs50(avg) ==
    IF avg.l = 0 /\ avg.g = 0 THEN RsiOf(50, 1)
    ELSE IF avg.l = 0 THEN RsiOf(100, 1)
    ELSE RsiOf(100 * (avg.l + avg.g) - 100 * avg.l, avg.l + avg.g)

\* rsi.py:34-37: 100.0 when avg_loss is 0; otherwise rs = avg_gain/avg_loss
\* = g/l and 100 - 100/(1 + rs) = 100 - 100*l/(l + g).
RsiValue(avg) ==
    IF avg.l = 0 THEN RsiOf(100, 1)
    ELSE RsiOf(100 * (avg.l + avg.g) - 100 * avg.l, avg.l + avg.g)

\* rsi.py:9-37.
rsi(closes, period) ==
    IF Len(closes) < period + 1 THEN RsiNone
    ELSE LET changes == Changes(closes)
             first == [g |-> SumFirst(changes, 1, period),
                       l |-> SumFirst(changes, 2, period),
                       d |-> period]
         IN  RsiValue(Wilder(changes, period, period + 1, first))

\* ------------------------------------------------------------ specification
\* A closed candle: low <= close <= high.
Candles == {c \in [high : Prices, low : Prices, close : Prices] :
                c.low <= c.close /\ c.close <= c.high}

InitMarket(c) ==
    /\ now = 0
    /\ k15 = [close_time |-> 0, high |-> c.high, low |-> c.low, close |-> c.close]
    /\ k1 = [close_time |-> 0, close |-> c.close]
    /\ acc = NoAcc
    /\ position = 0
    /\ orders = {}

InitController(cfg) ==
    /\ config = cfg
    /\ pc = "start"
    /\ last_15m_close_time = NoTime
    /\ range_high = 0
    /\ range_low = 0
    /\ active_15m_open = NoTime
    /\ last_1m_close_time = NoTime
    /\ close_price = 0
    /\ entry_plan = NoPlan
    /\ current_sl = 0
    /\ position_15m_close_time = NoTime
    /\ fifteen_m = [close |-> 0, high |-> 0, low |-> 0]
    /\ position_amt = 0
    /\ new_sl = NoSl
    /\ tick = "init"
    /\ calls = <<>>
    /\ sent = <<>>
    /\ delivery = "-"
    /\ armed = [close_time |-> NoTime, high |-> 0, low |-> 0]
    /\ raised_at = ""

\* rsi_notifier.py:142-145
InitScanner ==
    /\ last_close_time = [k \in Keys |-> 0]
    /\ scan_idx = 1
    /\ scan_tick = "init"
    /\ evals = [e \in Keys \X CloseTimes |-> 0]
    /\ alerts = [e \in Keys \X CloseTimes |-> 0]
    /\ polled = <<>>
    /\ scan_calls = {}

\* No strategy function is being applied.
FnIdle == [at |-> "idle", range_high |-> 0, range_low |-> 0, entry |-> 0,
           side |-> "NONE", plan |-> NoPlan]

\* The controller, the exchange it trades on and the market.
Init ==
    /\ \E c \in Candles : InitMarket(c)
    /\ \E cfg \in Configs : InitController(cfg)
    /\ InitScanner
    /\ fn = FnIdle

Next ==
    \/ Tick
    \/ Fill
    \/ Start
    \/ Wait15
    \/ ArmLatest
    \/ Wait1
    \/ CheckBreakout
    \/ EntryCancel
    \/ EntryMarket
    \/ EntryStop
    \/ EntryTarget
    \/ PosWait15
    \/ PosQuery
    \/ ExitCancel
    \/ ExitMarket
    \/ TightenCancel
    \/ TightenStop
    \/ TightenTarget
    \/ CallRaises

Spec == Init /\ [][Next]_vars

\* The steps of main() that return normally.
MainRuns ==
    \/ Start
    \/ Wait15
    \/ ArmLatest
    \/ Wait1
    \/ CheckBreakout
    \/ EntryCancel
    \/ EntryMarket
    \/ EntryStop
    \/ EntryTarget
    \/ PosWait15
    \/ PosQuery
    \/ ExitCancel
    \/ ExitMarket
    \/ TightenCancel
    \/ TightenStop
    \/ TightenTarget

\* Candles keep closing (up to the horizon) and main() keeps running: a poll
\* whose candle is there returns, a call that can be made is made.  No
\* fairness for CallRaises: a call may never raise.
SpecFair == Init /\ [][Next]_vars /\ WF_vars(Tick) /\ WF_vars(MainRuns)

\* The scanner thread, started by main() (lines 50-58) when a token, a chat
\* and symbols are configured.
InitScan ==
    /\ InitMarket([high |-> 1, low |-> 1, close |-> 1])
    /\ InitController(Config(TRUE, FALSE, TRUE, FALSE, TRUE))
    /\ InitScanner
    /\ fn = FnIdle

NextScan ==
    \/ ScanPoll
    \/ ScanSleep

SpecScan == InitScan /\ [][NextScan]_vars

\* build_trade_plan applied to every input of a bounded set.
PlanInputs == (0..MaxIn) \cup {99, 100, 110, 111}

InitPlan ==
    /\ InitMarket([high |-> 1, low |-> 1, close |-> 1])
    /\ InitController(Config(TRUE, FALSE, TRUE, FALSE, TRUE))
    /\ InitScanner
    /\ \E rh \in PlanInputs, rl \in PlanInputs, e \in PlanInputs, sd \in {"LONG", "SHORT"} :
         fn = [at |-> "call", range_high |-> rh, range_low |-> rl, entry |-> e,
               side |-> sd, plan |-> NoPlan]

ApplyBuildTradePlan ==
    /\ fn.at = "call"
    /\ fn' = [fn EXCEPT !.at = "done",
                        !.plan = build_trade_plan(fn.range_high, fn.range_low,
                                                  fn.entry, fn.side)]
    /\ UNCHANGED <<mktVars, ctlVars, scanVars>>

NextPlan == ApplyBuildTradePlan

SpecPlan == InitPlan /\ [][NextPlan]_vars

\* The classification of _check_and_notify applied to every reading of
\* RsiVals on every interval, with and without the 1m closes.
InitAlert ==
    /\ InitMarket([high |-> 1, low |-> 1, close |-> 1])
    /\ InitController(Config(TRUE, FALSE, TRUE, FALSE, TRUE))
    /\ InitScanner
    /\ \E iv \in {"1m", "5m", "15m"}, r6 \in RsiVals, r12 \in RsiVals,
          ok1m \in BOOLEAN, r6_1m \in RsiVals :
            fn = [at |-> "input", interval |-> iv, r6 |-> r6, r12 |-> r12,
                  ok1m |-> ok1m, r6_1m |-> r6_1m, kind |-> "-"]

ApplyAlertFor ==
    /\ fn.at = "input"
    /\ fn' = [fn EXCEPT !.at = "done",
                        !.kind = AlertFor(fn.interval, fn.r6, fn.r12, fn.ok1m,
                                          fn.r6_1m)]
    /\ UNCHANGED <<mktVars, ctlVars, scanVars>>

NextAlert == ApplyAlertFor

SpecAlert == InitAlert /\ [][NextAlert]_vars

\* The close series and periods rsi is applied to.
CloseSeries == UNION {[1..n -> 1..MaxClose] : n \in 0..MaxRsiLen}

Periods == 1..MaxPeriod

InitRsi ==
    /\ InitMarket([high |-> 1, low |-> 1, close |-> 1])
    /\ InitController(Config(TRUE, FALSE, TRUE, FALSE, TRUE))
    /\ InitScanner
    /\ \E closes \in CloseSeries, period \in Periods :
            fn = [at |-> "input", closes |-> closes, period |-> period,
                  result |-> RsiNone]

ApplyRsi ==
    /\ fn.at = "input"
    /\ fn' = [fn EXCEPT !.at = "done", !.result = rsi(fn.closes, fn.period)]
    /\ UNCHANGED <<mktVars, ctlVars, scanVars>>

NextRsi == ApplyRsi

SpecRsi == InitRsi /\ [][NextRsi]_vars

\* ---------------------------------------------------------------- properties
\* A step of the controller (every step of main() moves pc) that did not raise.
CtlStep == pc' # pc /\ pc' # "crashed"

IsPrefix(s, t) == Len(s) <= Len(t) /\ s = SubSeq(t, 1, Len(s))

StopCalls == {i \in 1..Len(calls) : calls[i].op = "place_stop_market"}

\* C2: while IN_POSITION the current stop starts at the plan's stop_loss and
\* never moves against the trade (LONG: never down, SHORT: never up); it
\* changes only to a candidate that is strictly better; every stop order
\* placed is placed at the current stop.
C2_StopNeverLoosens ==
    /\ [][(CtlState = "IN_POSITION" /\ CtlState' = "IN_POSITION") =>
            /\ entry_plan' = entry_plan
            /\ entry_plan.side = "LONG" => current_sl' >= current_sl
            /\ entry_plan.side = "SHORT" => current_sl' <= current_sl
            /\ current_sl' # current_sl =>
                /\ current_sl' = new_sl'
                /\ entry_plan.side = "LONG" => new_sl' > current_sl
                /\ entry_plan.side = "SHORT" => new_sl' < current_sl]_vars
    /\ [][(CtlState # "IN_POSITION" /\ CtlState' = "IN_POSITION") =>
            current_sl' = entry_plan'.stop_loss]_vars
    /\ [](CtlState = "IN_POSITION" =>
            \A i \in StopCalls : calls[i].price = current_sl)
    /\ [](CtlState = "ENTERING" =>
            \A i \in StopCalls : calls[i].price = entry_plan.stop_loss)

\* C2 witness: a LONG whose stop was tightened holds a candle whose low is
\* below the current stop, and the stop stays.
C2_Witness ==
    /\ pc = "p_wait15" /\ tick = "hold" /\ config.move_sl_on_hold
    /\ entry_plan.side = "LONG"
    /\ current_sl > entry_plan.stop_loss
    /\ new_sl # NoSl /\ new_sl < current_sl

\* C3: a trigger candle that arrives after the range candle seen at arming
\* has been replaced sends the controller to IDLE: no breakout test, no plan,
\* no alert, no order call.
C3_RolloverReturnsIdle ==
    /\ [][(pc = "check_roll" /\ CtlStep /\ k15.close_time + 1 # active_15m_open) =>
            /\ pc' = "wait15"
            /\ tick' = "rollover"
            /\ entry_plan' = NoPlan
            /\ UNCHANGED <<position, orders>>]_vars
    /\ [](tick = "rollover" =>
            /\ CtlState \in {"IDLE", "TERMINATED"}
            /\ entry_plan = NoPlan /\ calls = <<>> /\ sent = <<>>)

\* C3 witness: the rollover tick's candle closed outside the armed range.
C3_Witness ==
    /\ pc = "wait15" /\ tick = "rollover"
    /\ (close_price > armed.high \/ close_price < armed.low)

\* C4: ARMED is left for a position only by a trigger close strictly above
\* the armed high (LONG) or strictly below the armed low (SHORT); a close
\* inside the armed range, boundaries included, with the range candle not
\* rolled over, leaves the controller ARMED with no plan and no order call.
C4_BreakoutOnlyStrict ==
    /\ [][(CtlState = "ARMED" /\ CtlState' \in {"ENTERING", "IN_POSITION"}) =>
            /\ pc = "check_roll"
            /\ range_high = armed.high /\ range_low = armed.low
            /\ \/ close_price > armed.high /\ entry_plan'.side = "LONG"
               \/ close_price < armed.low /\ entry_plan'.side = "SHORT"]_vars
    /\ [][(/\ pc = "check_roll" /\ CtlStep
           /\ k15.close_time + 1 = active_15m_open
           /\ armed.low <= close_price /\ close_price <= armed.high) =>
            /\ pc' = "wait1"
            /\ tick' = "stay"
            /\ entry_plan' = NoPlan /\ calls' = <<>> /\ sent' = <<>>
            /\ UNCHANGED <<position, orders>>]_vars

\* C4 witness: a trigger candle closed exactly on the armed high and the
\* controller stayed ARMED.
C4_Witness ==
    /\ pc = "wait1" /\ tick = "stay"
    /\ close_price = armed.high /\ armed.low < armed.high

\* The range boundary of the arming is strictly passed by the close of the
\* range candle of this tick.
BeyondArmed ==
    \/ entry_plan.side = "LONG" /\ fifteen_m.close > armed.high
    \/ entry_plan.side = "SHORT" /\ fifteen_m.close < armed.low

\* C6: on a range candle closed while IN_POSITION with the position open,
\* the controller holds iff the close is strictly beyond the boundary
\* captured at arming and exits otherwise; on hold the candidate stop is the
\* candle's low (LONG) or high (SHORT), on exit there is none.
C6_HoldIffBeyondArmedRange ==
    /\ [][(pc = "p_wait15" /\ CtlStep) =>
            fifteen_m' = [close |-> k15.close, high |-> k15.high, low |-> k15.low]]_vars
    /\ [][(CtlState = "IN_POSITION" /\ CtlStep) => armed' = armed]_vars
    /\ [](tick \in {"hold", "tighten", "exit"} =>
            /\ tick \in {"hold", "tighten"} <=> BeyondArmed
            /\ tick = "exit" <=> ~BeyondArmed
            /\ tick \in {"hold", "tighten"} =>
                /\ CtlState \in {"IN_POSITION", "TERMINATED"}
                /\ new_sl = IF entry_plan.side = "LONG" THEN fifteen_m.low
                                                        ELSE fifteen_m.high
            /\ tick = "exit" =>
                /\ CtlState \in {"EXITING", "IDLE", "TERMINATED"}
                /\ new_sl = NoSl)

\* C6 witness: a LONG exits on a candle that closed exactly on the armed high,
\* above the candle's own low.
C6_Witness ==
    /\ tick = "exit" /\ entry_plan.side = "LONG"
    /\ fifteen_m.close = armed.high /\ fifteen_m.low < fifteen_m.close

\* C7: live, the position query returns zero: IDLE with no order call on the
\* tick, and the next arming is on a range candle that closed strictly later.
C7_ZeroPositionGoesIdle ==
    /\ [][(pc = "p_query" /\ CtlStep /\ position = 0) =>
            /\ pc' = "wait15"
            /\ tick' = "zero"
            /\ calls' = <<>>
            /\ UNCHANGED <<position, orders>>]_vars
    /\ [](tick = "zero" =>
            /\ CtlState \in {"IDLE", "TERMINATED"}
            /\ calls = <<>>)
    /\ [][(pc = "wait15" /\ tick = "zero" /\ CtlStep) =>
            /\ CtlState' = "ARMED"
            /\ armed'.close_time = k15.close_time
            /\ armed'.close_time > position_15m_close_time]_vars

\* C7 witness: after the zero-position tick the next range candle has closed
\* and the controller is about to arm on it.
C7_Witness ==
    /\ pc = "wait15" /\ tick = "zero" /\ ~config.dry_run
    /\ k15.close_time > position_15m_close_time

\* The side that closes the plan's position.
ClosingSide == IF entry_plan.side = "LONG" THEN "SELL" ELSE "BUY"

\* C8: live, the hold test fails: cancel_all_orders, then one market order on
\* the closing side for the absolute queried position amount, then IDLE; no
\* stop or target order on the tick.
C8_LiveExitCalls ==
    /\ [][(pc = "p_query" /\ CtlStep /\ tick' = "exit") =>
            position_amt' = position /\ calls' = <<>>]_vars
    /\ []((tick = "exit" /\ ~config.dry_run) =>
            LET expected == <<[op |-> "cancel_all_orders", side |-> "-", price |-> 0,
                               qty |-> 0],
                              [op |-> "place_market_order", side |-> ClosingSide,
                               price |-> 0, qty |-> Abs(position_amt)]>>
            IN  /\ pc \in {"x_cancel", "x_market", "wait15", "crashed"}
                /\ pc = "x_cancel" => calls = <<>>
                /\ pc = "x_market" => calls = SubSeq(expected, 1, 1)
                /\ pc = "wait15" => calls = expected
                /\ IsPrefix(calls, expected))

\* C8 witness: a live SHORT has been closed by the exit.
C8_Witness ==
    /\ pc = "wait15" /\ tick = "exit" /\ ~config.dry_run
    /\ entry_plan.side = "SHORT" /\ Len(calls) = 2

\* C9: live breakout: cancel_all_orders, market entry on the plan's side,
\* stop at stop_loss and target at take_profit on the opposite side, each
\* once, in this order, each for the configured quantity; in either mode the
\* alert carries the plan and the dry-run flag when token and chat are set.
C9_LiveEntryCalls ==
    /\ []((tick = "breakout" /\ ~config.dry_run) =>
            LET entry_side == IF entry_plan.side = "LONG" THEN "BUY" ELSE "SELL"
                expected ==
                  <<[op |-> "cancel_all_orders", side |-> "-", price |-> 0, qty |-> 0],
                    [op |-> "place_market_order", side |-> entry_side, price |-> 0,
                     qty |-> Qty],
                    [op |-> "place_stop_market", side |-> ClosingSide,
                     price |-> entry_plan.stop_loss, qty |-> Qty],
                    [op |-> "place_take_profit_market", side |-> ClosingSide,
                     price |-> entry_plan.take_profit, qty |-> Qty]>>
            IN  /\ entry_plan.side \in {"LONG", "SHORT"}
                /\ IsPrefix(calls, expected)
                /\ CtlState = "IN_POSITION" => calls = expected)
    /\ [](tick = "breakout" =>
            sent = IF /\ config.telegram_bot_token
                      /\ (config.telegram_breakout_chat_id \/ config.telegram_chat_id)
                   THEN <<[side |-> entry_plan.side, entry |-> entry_plan.entry,
                           stop_loss |-> entry_plan.stop_loss,
                           take_profit |-> entry_plan.take_profit,
                           dry_run |-> config.dry_run]>>
                   ELSE <<>>)

\* C9 witness: a live SHORT entry is complete and its alert was sent.
C9_Witness ==
    /\ pc = "p_wait15" /\ tick = "breakout" /\ ~config.dry_run
    /\ entry_plan.side = "SHORT" /\ Len(calls) = 4 /\ Len(sent) = 1

\* C10: a failed position query leaves the controller IN_POSITION (to query
\* again on a later tick) with plan, range and stop as they were.
C10_QueryFailureKeepsPosition ==
    raised_at = "p_query" => CtlState = "IN_POSITION"

\* C1: no (symbol, interval, close_time) is handed to _check_and_notify
\* twice, none gets two alerts, and no cursor ever decreases.
C1_EvaluatedAtMostOnce ==
    /\ [](\A e \in Keys \X CloseTimes :
            /\ evals[e] <= 1
            /\ alerts[e] <= evals[e]
            /\ evals[e] = 1 => e[2] <= last_close_time[e[1]])
    /\ [][\A k \in Keys : last_close_time'[k] >= last_close_time[k]]_vars

\* C1 witness: a pair whose candles 1 and 2 were evaluated, candle 2 with an
\* alert, is delivered a candle again that is not newer, and nothing happens.
C1_Witness ==
    /\ scan_tick = "skip" /\ scan_idx > 1
    /\ LET key == Pairs[scan_idx - 1]
       IN  /\ last_close_time[key] = 2
           /\ evals[<<key, 1>>] = 1 /\ evals[<<key, 2>>] = 1
           /\ alerts[<<key, 2>>] = 1

\* C5: build_trade_plan keeps side and entry; LONG: stop_loss = range_low and
\* take_profit = entry + 2*(entry - range_low); SHORT: stop_loss = range_high
\* and take_profit = entry - 2*(range_high - entry); 110/100/111/LONG gives
\* 100 and 133, 110/100/99/SHORT gives 110 and 77.
C5_BuildTradePlan ==
    fn.at = "done" =>
        /\ fn.plan.side = fn.side
        /\ fn.plan.entry = fn.entry
        /\ fn.side = "LONG" =>
            /\ fn.plan.stop_loss = fn.range_low
            /\ fn.plan.take_profit = fn.entry + 2 * (fn.entry - fn.range_low)
        /\ fn.side = "SHORT" =>
            /\ fn.plan.stop_loss = fn.range_high
            /\ fn.plan.take_profit = fn.entry - 2 * (fn.range_high - fn.entry)
        /\ (fn.range_high = 110 /\ fn.range_low = 100 /\ fn.entry = 111 /\ fn.side = "LONG")
            => (fn.plan.stop_loss = 100 /\ fn.plan.take_profit = 133)
        /\ (fn.range_high = 110 /\ fn.range_low = 100 /\ fn.entry = 99 /\ fn.side = "SHORT")
            => (fn.plan.stop_loss = 110 /\ fn.plan.take_profit = 77)

\* C5 witness: the plan of the SHORT example has been built.
C5_Witness ==
    /\ fn.at = "done"
    /\ fn.range_high = 110 /\ fn.range_low = 100 /\ fn.entry = 99 /\ fn.side = "SHORT"
    /\ fn.plan.take_profit = 77

\* The entry steps of main() in call order (main.py:139-153).
EntrySteps == <<"e_cancel", "e_market", "e_stop", "e_target">>

\* C11: when an entry call (cancel, market entry, stop, target) raises, the
\* calls made so far are exactly the ones before the failing call, the
\* controller has left main() and takes no further step: the failing call is
\* not made again, no later call is made, and the position loop of that
\* breakout is never entered.
C11_EntryFailurePropagates ==
    /\ [](\A i \in 1..4 : raised_at = EntrySteps[i] =>
            /\ pc = "crashed"
            /\ tick = "breakout"
            /\ Len(calls) = i - 1
            /\ position_15m_close_time = NoTime)
    /\ [][(\E i \in 1..4 : raised_at = EntrySteps[i]) =>
            UNCHANGED <<pc, calls, tick, raised_at>>]_vars

\* C11 witness: the stop order raised after the market entry filled: the
\* account holds the position, no stop or target was placed, main() is over.
C11_Witness ==
    /\ raised_at = "e_stop" /\ pc = "crashed"
    /\ Len(calls) = 2 /\ position # 0 /\ orders = {}

\* The order of a cycle for the configured symbol.
CycleOrder == <<<<"BTCUSDT", "1m">>, <<"BTCUSDT", "5m">>, <<"BTCUSDT", "15m">>>>

\* C12: in every scanner cycle the pairs are polled once each in the order
\* symbols x (1m, 5m, 15m): the pairs polled so far are always a prefix of
\* that order, whatever raised; after a raising candle fetch or a raising
\* evaluation the next pair of the order is the next one polled; the cycle
\* sleeps only when all pairs were polled. For two symbols the order of the
\* loop nest is all intervals of the first symbol, then all of the second.
C12_EveryPairPolledOncePerCycle ==
    /\ [](/\ Len(polled) <= Len(CycleOrder)
          /\ polled = SubSeq(CycleOrder, 1, Len(polled))
          /\ scan_idx = Len(polled) + 1
          /\ PairsOf(<<"BTCUSDT", "ETHUSDT">>) =
                <<<<"BTCUSDT", "1m">>, <<"BTCUSDT", "5m">>, <<"BTCUSDT", "15m">>,
                  <<"ETHUSDT", "1m">>, <<"ETHUSDT", "5m">>, <<"ETHUSDT", "15m">>>>)
    /\ [][scan_tick' = "sleep" => polled = CycleOrder]_vars
    /\ [][(scan_tick \in {"kline_raised", "eval_raised"} /\ polled' # polled) =>
            IF Len(polled) = Len(CycleOrder)
            THEN scan_tick' = "sleep" /\ polled' = <<>>
            ELSE polled' = Append(polled, CycleOrder[Len(polled) + 1])]_vars

\* C12 witness: the candle fetch of the first pair raised, the evaluation of
\* the second raised, and the third pair was polled all the same.
C12_Witness ==
    /\ polled = CycleOrder
    /\ scan_tick = "quiet"
    /\ last_close_time[<<"BTCUSDT", "1m">>] = 0
    /\ last_close_time[<<"BTCUSDT", "5m">>] = 1
    /\ evals[<<<<"BTCUSDT", "5m">>, 1>>] = 1
    /\ alerts[<<<<"BTCUSDT", "5m">>, 1>>] = 0
    /\ last_close_time[<<"BTCUSDT", "15m">>] = 1

\* C13: when the closes of a newly closed candle cannot be fetched (the fetch
\* fails or returns fewer than 25 klines), the poll leaves the pair's cursor
\* where it was, so that the same candle is new again on the next cycle.
C13_FailedEvaluationNotMarked ==
    [][(scan_tick' = "no_closes" /\ polled' # polled) =>
            last_close_time' = last_close_time]_vars

\* The oversold rule of the design table.
OversoldRule(iv, r6, r12) ==
    \/ iv = "1m" /\ r6 < 20 /\ r12 < 30
    \/ iv = "5m" /\ r6 < 30 /\ r12 < 40
    \/ iv = "15m" /\ r6 < 40

\* C14: for readings r6, r12 of a candle the alert is Oversold exactly when
\* (1m: r6 < 20 and r12 < 30), (5m: r6 < 30 and r12 < 40), (15m: r6 < 40),
\* whatever the 1m closes are and whether or not they can be fetched; no
\* Overbought alert is sent when the rule holds.
C14_OversoldRule ==
    fn.at = "done" =>
        /\ fn.kind = "Oversold" <=> OversoldRule(fn.interval, fn.r6, fn.r12)
        /\ OversoldRule(fn.interval, fn.r6, fn.r12) => fn.kind # "Overbought"

\* C14 witness: a 5m candle with r6 below 30 and r12 below 40 is Oversold
\* although the 1m closes cannot be fetched.
C14_Witness ==
    /\ fn.at = "done" /\ fn.interval = "5m" /\ fn.r6 = 25 /\ fn.r12 = 35
    /\ ~fn.ok1m /\ fn.kind = "Oversold"

\* The overbought rule with the given 15m threshold: 1m r6 > 80 and
\* r12 > 70; 5m r6 > 70; 15m r6 > t15; 5m and 15m only with the 1m closes
\* fetched and their RSI(6) above 80.
OverboughtRule(t15, iv, r6, r12, ok1m, r6_1m) ==
    \/ iv = "1m" /\ r6 > 80 /\ r12 > 70
    \/ iv = "5m" /\ r6 > 70 /\ ok1m /\ r6_1m > 80
    \/ iv = "15m" /\ r6 > t15 /\ ok1m /\ r6_1m > 80

\* C15 as claimed: for a candle that is not oversold the alert is Overbought
\* exactly when the rule with the 15m threshold 60 holds.
C15_OverboughtRule15m60 ==
    (fn.at = "done" /\ ~OversoldRule(fn.interval, fn.r6, fn.r12)) =>
        (fn.kind = "Overbought" <=>
            OverboughtRule(60, fn.interval, fn.r6, fn.r12, fn.ok1m, fn.r6_1m))

\* C15 amended: for a candle that is not oversold the alert is Overbought
\* exactly when the rule with the 15m threshold 70 (the same as 5m) holds;
\* otherwise no alert is sent.
C15_OverboughtRule ==
    (fn.at = "done" /\ ~OversoldRule(fn.interval, fn.r6, fn.r12)) =>
        /\ fn.kind = "Overbought" <=>
            OverboughtRule(70, fn.interval, fn.r6, fn.r12, fn.ok1m, fn.r6_1m)
        /\ fn.kind \in {"Overbought", "None"}

\* C15 witness: a 15m candle with r6 above 70 and the 1m RSI(6) above 80 is
\* Overbought.
C15_Witness ==
    /\ fn.at = "done" /\ fn.interval = "15m" /\ fn.r6 = 75
    /\ fn.ok1m /\ fn.r6_1m = 85 /\ fn.kind = "Overbought"

\* No close of the series is lower than its predecessor.
NonDecreasing(closes) == \A i \in 1..(Len(closes) - 1) : closes[i + 1] >= closes[i]

\* Every close of the series is lower than its predecessor.
StrictlyDecreasing(closes) == \A i \in 1..(Len(closes) - 1) : closes[i + 1] < closes[i]

AllEqual(closes) == \A i \in 1..(Len(closes) - 1) : closes[i + 1] = closes[i]

\* C18: for every period P and every series of at least P + 1 closes in
\* which no close is lower than its predecessor (all closes equal included),
\* rsi returns exactly 100.
C18_NoLossGives100 ==
    (fn.at = "done" /\ Len(fn.closes) >= fn.period + 1) =>
        /\ AllEqual(fn.closes) =>
            (~fn.result.none /\ fn.result.num = 100 /\ fn.result.den = 1)
        /\ NonDecreasing(fn.closes) =>
            (~fn.result.none /\ fn.result.num = 100 * fn.result.den)

\* C18 witness: three equal closes, period 2: the result is 100.
C18_Witness ==
    /\ fn.at = "done" /\ fn.closes = <<2, 2, 2>> /\ fn.period = 2
    /\ fn.result = RsiOf(100, 1)

\* C19 as claimed: for every period P and every strictly decreasing series
\* of at least P + 1 closes the result is strictly between 0 and 100.
C19_DecreasingInsideOpenInterval ==
    (/\ fn.at = "done"
     /\ Len(fn.closes) >= fn.period + 1
     /\ StrictlyDecreasing(fn.closes)) =>
        (/\ ~fn.result.none
         /\ fn.result.num > 0
         /\ fn.result.num < 100 * fn.result.den)

\* C19 amended: for every period P and every strictly decreasing series of
\* at least P + 1 closes the result is exactly 0: the average gain is 0 and
\* the average loss is not.
C19_DecreasingGivesZero ==
    (/\ fn.at = "done"
     /\ Len(fn.closes) >= fn.period + 1
     /\ StrictlyDecreasing(fn.closes)) =>
        (~fn.result.none /\ fn.result.num = 0 /\ fn.result.den > 0)

\* C19 witness: 4, 3, 1 with period 1 (one smoothing step): the result is 0.
C19_Witness ==
    /\ fn.at = "done" /\ fn.closes = <<4, 3, 1>> /\ fn.period = 1
    /\ ~fn.result.none /\ fn.result.num = 0

\* The steps of main() at which an order, leverage or position call is made.
ExchangeSteps == {"e_cancel", "e_market", "e_stop", "e_target", "p_query",
                  "x_cancel", "x_market", "t_cancel", "t_stop", "t_target"}

\* The hold test fails on candle c for the plan's side and the armed range.
HoldFails(c) ==
    \/ entry_plan.side = "LONG" /\ c.close <= range_high
    \/ entry_plan.side = "SHORT" /\ c.close >= range_low

\* C20: in dry-run the controller never calls set_leverage, cancel_all_orders,
\* place_market_order, place_stop_market, place_take_profit_market or
\* get_position_amt, and the account stays flat with no orders; a breakout
\* takes it from ARMED to IN_POSITION, and it leaves IN_POSITION only for
\* IDLE, on a range candle on which the hold test fails, never on the
\* zero-position path; on every other range candle it stays IN_POSITION.
C20_DryRunCallsNothing ==
    /\ [](config.dry_run =>
            /\ calls = <<>>
            /\ position = 0 /\ orders = {}
            /\ pc \notin ExchangeSteps
            /\ raised_at \notin ExchangeSteps
            /\ tick \notin {"zero", "range"})
    /\ [][(config.dry_run /\ CtlStep) =>
            /\ tick' = "breakout" =>
                (CtlState = "ARMED" /\ CtlState' = "IN_POSITION")
            /\ CtlState = "IN_POSITION" =>
                /\ fifteen_m' = [close |-> k15.close, high |-> k15.high,
                                 low |-> k15.low]
                /\ position_amt' = Qty
                /\ IF HoldFails(fifteen_m')
                   THEN tick' = "exit" /\ CtlState' = "IDLE"
                   ELSE tick' \in {"hold", "tighten"} /\ CtlState' = "IN_POSITION"]_vars

\* C20 witness: a dry-run SHORT was left on a range candle that closed at or
\* above range_low; nothing was called.
C20_Witness ==
    /\ config.dry_run /\ pc = "wait15" /\ tick = "exit"
    /\ entry_plan.side = "SHORT" /\ fifteen_m.close >= range_low
    /\ calls = <<>> /\ Len(sent) = 0

\* The operations of a live entry, in call order.
EntryOps == <<"cancel_all_orders", "place_market_order", "place_stop_market",
              "place_take_profit_market">>

\* C17: whatever the transport does with the breakout alert (accepts it,
\* answers with an error, raises), no exception leaves send_message, the
\* breakout step goes on to the same step (the position loop in dry-run, the
\* first entry call live) with the same plan and stop, and the live entry
\* makes the same four calls in the same order.
C17_DeliveryFailureChangesNothing ==
    /\ [](raised_at # "alert")
    /\ [][(pc = "check_roll" /\ tick' = "breakout") =>
            /\ pc' = IF config.dry_run THEN "p_wait15" ELSE "e_cancel"
            /\ calls' = <<>>
            /\ entry_plan'.entry = close_price
            /\ config.dry_run =>
                (/\ current_sl' = entry_plan'.stop_loss
                 /\ position_15m_close_time' = last_15m_close_time)
            /\ Len(sent') = 1 <=> delivery' \in TransportOutcomes
            /\ Len(sent') = 0 <=> delivery' = "-"]_vars
    /\ []((tick = "breakout" /\ ~config.dry_run) =>
            /\ Len(calls) <= 4
            /\ \A i \in 1..Len(calls) : calls[i].op = EntryOps[i]
            /\ pc = "p_wait15" => Len(calls) = 4)

\* C17 witness: the transport raised on the alert of a live breakout and the
\* entry is complete: four calls made, the controller in the position loop.
C17_Witness ==
    /\ delivery = "raised" /\ tick = "breakout" /\ ~config.dry_run
    /\ pc = "p_wait15" /\ Len(calls) = 4 /\ Len(sent) = 1
    /\ position # 0

\* The operations of the exchange that change the account or its orders.
MutatingOps == {"cancel_all_orders", "place_market_order", "place_stop_market",
                "place_take_profit_market", "set_leverage"}

C21_NoOrderRestsOutsidePosition ==
    (~config.dry_run /\ CtlState \in {"IDLE", "ARMED"}) => orders = {}

\* C22: live, once an exit has completed and the controller is IDLE, the
\* account position is zero, whatever filled between the position query,
\* the cancel and the closing market order.
C22_ExitLeavesNoPosition ==
    (~config.dry_run /\ pc = "wait15" /\ tick = "exit") => position = 0

\* The target orders among the calls of the tick.
TargetCalls == {i \in 1..Len(calls) : calls[i].op = "place_take_profit_market"}

\* C23: every plan has its levels strictly ordered around the entry
\* (LONG: stop_loss < entry < take_profit, SHORT: take_profit < entry <
\* stop_loss) with a reward of twice the risk, the risk being positive; a
\* plan changes only by being dropped at the next arming, and every target
\* order, at the entry and at every tightening, is placed at its take_profit.
C23_PlanLevelsOrderedAndFixed ==
    /\ [](entry_plan.side = "LONG" =>
            /\ entry_plan.stop_loss < entry_plan.entry
            /\ entry_plan.entry < entry_plan.take_profit
            /\ entry_plan.take_profit - entry_plan.entry =
                    2 * (entry_plan.entry - entry_plan.stop_loss))
    /\ [](entry_plan.side = "SHORT" =>
            /\ entry_plan.take_profit < entry_plan.entry
            /\ entry_plan.entry < entry_plan.stop_loss
            /\ entry_plan.entry - entry_plan.take_profit =
                    2 * (entry_plan.stop_loss - entry_plan.entry))
    /\ [](entry_plan.side \in {"LONG", "SHORT", "NONE"})
    /\ [][(entry_plan.side # "NONE" /\ entry_plan' # entry_plan) =>
            (entry_plan' = NoPlan /\ pc = "wait15" /\ pc' = "arm_latest")]_vars
    /\ [](\A i \in TargetCalls :
            /\ calls[i].price = entry_plan.take_profit
            /\ calls[i].side = ClosingSide
            /\ calls[i].qty = Qty)

\* C23 witness: a SHORT's stop was tightened and the target was placed again
\* at the plan's take_profit.
C23_Witness ==
    /\ pc = "p_wait15" /\ tick = "tighten" /\ ~config.dry_run
    /\ entry_plan.side = "SHORT" /\ current_sl < entry_plan.stop_loss
    /\ Len(calls) = 3 /\ calls[3].price = entry_plan.take_profit

\* The market orders among the calls of the tick.
MarketCalls == {i \in 1..Len(calls) : calls[i].op = "place_market_order"}

\* C24: every arming takes a range candle that closed strictly later than the
\* one armed on before; a plan is created only while ARMED with no plan yet
\* for the armed candle, and is dropped only by a later arming; a breakout
\* tick begins only with that creation; a tick makes at most one market
\* order, on a breakout tick the entry (made from the entry step, never
\* from the position loop) and on an exit tick the closing order.
C24_OneEntryPerArmedCandle ==
    /\ [][(pc = "wait15" /\ pc' = "arm_latest") =>
            /\ armed'.close_time > armed.close_time
            /\ armed'.close_time = k15.close_time]_vars
    /\ [][armed' # armed => (pc = "wait15" /\ pc' = "arm_latest")]_vars
    /\ [][(entry_plan' # entry_plan /\ entry_plan' # NoPlan) =>
            /\ entry_plan = NoPlan
            /\ CtlState = "ARMED"
            /\ armed' = armed]_vars
    /\ [][(entry_plan # NoPlan /\ entry_plan' = NoPlan) =>
            armed'.close_time > armed.close_time]_vars
    /\ [][(tick # "breakout" /\ tick' = "breakout") =>
            (entry_plan = NoPlan /\ entry_plan' # NoPlan)]_vars
    /\ [](/\ Cardinality(MarketCalls) <= 1
          /\ MarketCalls # {} => tick \in {"breakout", "exit"})
    /\ [][(Len(calls') > Len(calls) /\ calls'[Len(calls')].op = "place_market_order") =>
            \/ /\ pc = "e_market" /\ tick = "breakout"
               /\ calls'[Len(calls')].side =
                    (IF entry_plan.side = "LONG" THEN "BUY" ELSE "SELL")
            \/ /\ pc = "x_market" /\ tick = "exit"
               /\ calls'[Len(calls')].side = ClosingSide]_vars

\* C24 witness: live, the controller is ARMED on a later range candle than
\* its first, with no plan, after an earlier entry whose target still rests.
C24_Witness ==
    /\ ~config.dry_run /\ pc = "wait1" /\ entry_plan = NoPlan
    /\ armed.close_time > RangeLen
    /\ orders # {}

\* The close time of the next range candle.
NextRangeClose == now - (now % RangeLen) + RangeLen

\* ARMED in the trigger loop with a rollover still to be seen: the range
\* candle has rolled since arming and a trigger close is at hand or to come,
\* or it has not and the next range close lies within the horizon.
RolloverAhead ==
    /\ pc \in {"wait1", "check_roll"}
    /\ IF k15.close_time + 1 # active_15m_open
       THEN pc = "check_roll" \/ k1.close_time > last_1m_close_time \/ now < MaxTime
       ELSE NextRangeClose <= MaxTime

\* IDLE with a range close to arm on: one is unseen, or the next lies within
\* the horizon.
RangeCloseAhead ==
    /\ pc = "wait15"
    /\ \/ last_15m_close_time = NoTime
       \/ k15.close_time > last_15m_close_time
       \/ NextRangeClose <= MaxTime

\* The candle fetches of the ARMED state.
ArmedFetches == {"arm_latest", "wait1", "check_roll"}

\* C25 as stated: every ARMED period with a rollover ahead ends in IN_POSITION
\* or in IDLE, unless a candle fetch failed.
C25_ArmedEndsInPositionOrIdle ==
    RolloverAhead ~>
        (CtlState \in {"IN_POSITION", "IDLE"}
            \/ (pc = "crashed" /\ raised_at \in ArmedFetches))

\* C25: candles closing and main() running, every ARMED period with a
\* rollover ahead ends: in IN_POSITION or IDLE, or with the process ended by
\* a call that raised (a candle fetch, or an order call of the entry); it
\* ends only by a breakout or by a rollover; and from IDLE with a range close
\* ahead the controller arms again unless its fetch raises.
C25_ArmedPeriodEnds ==
    /\ RolloverAhead ~> (CtlState \in {"IN_POSITION", "IDLE"} \/ pc = "crashed")
    /\ (pc = "arm_latest") ~> (pc \in {"wait1", "crashed"})
    /\ RangeCloseAhead ~> (CtlState = "ARMED" \/ pc = "crashed")
    /\ [][(CtlState = "ARMED" /\ CtlState' # "ARMED") =>
            \/ tick' = "breakout" /\ CtlState' \in {"ENTERING", "IN_POSITION"}
            \/ tick' = "rollover" /\ CtlState' = "IDLE"
            \/ pc' = "crashed" /\ raised_at' \in ArmedFetches]_vars
    /\ [][(CtlState = "ENTERING" /\ CtlState' # "ENTERING") =>
            \/ CtlState' = "IN_POSITION"
            \/ pc' = "crashed" /\ raised_at' = pc]_vars

\* C25 witness: live, an ARMED period ended by a breakout and the process
\* ended in the entry, its first order call having raised.
C25_Witness ==
    /\ ~config.dry_run /\ pc = "crashed" /\ tick = "breakout"
    /\ raised_at = "e_cancel" /\ entry_plan # NoPlan

====
